---- MODULE Spec2Model ----
(***************************************************************************)
(* Model of backend/process_qa.py (and of the handlers of backend/app.py   *)
(* that call it): the LRUCache of loaded vector stores, the PDFProcessor   *)
(* that builds, persists, loads and queries one vector store per company,  *)
(* and the text extraction fallback chain.                                 *)
(***************************************************************************)
EXTENDS Integers, Sequences, FiniteSets, TLC

\* ------------------------------------------------------------------------
\* Bounds of the model
\* ------------------------------------------------------------------------

\* Capacity of the LRUCache.  process_qa.py:41 sets 5; the model scales the
\* capacity down together with the universe of companies (NumCompanies is
\* larger than the capacity, so that a put overflows the cache).
MAX_CACHE_SIZE == 2

\* Number of distinct company numbers (tenants).
NumCompanies == 3

\* Length of the recorded history of calls on a stand-alone LRUCache.
MaxOps == 4

\* Largest number of pages of a PDF.
MaxPages == 2

\* Largest number of PDFs in a company's download folder.
MaxPdfs == 2

\* Number of concurrent tasks (request threads).
NumTasks == 2

Tasks == 1..NumTasks

Companies == 1..NumCompanies

\* Two distinguishable contents of a company's download folder, so that a
\* rebuild can produce a vector store different from the previous one.
DocumentSets == {"A", "B"}

\* Python's None.
None == [none |-> TRUE]

\* A FAISS vector store: the company_number its chunks are tagged with
\* (doc.metadata["company_number"]) and the document set it was built from.
VectorStores == [company : Companies, docs : DocumentSets]

\* ------------------------------------------------------------------------
\* LRUCache(OrderedDict): a sequence of entries, least recently used first
\* ------------------------------------------------------------------------

Keys(c) == {c[i].key : i \in DOMAIN c}

Lookup(c, k) == (CHOOSE i \in DOMAIN c : c[i].key = k)

\* OrderedDict.move_to_end(key)
move_to_end(c, k) ==
    SelectSeq(c, LAMBDA e : e.key # k) \o <<c[Lookup(c, k)]>>

\* OrderedDict.__setitem__ that keeps the value of an existing key
setitemKeep(c, k, v) ==
    IF k \in Keys(c) THEN c ELSE Append(c, [key |-> k, value |-> v])

\* OrderedDict.__setitem__: an existing key keeps its position, a new key is
\* appended at the end.
setitem(c, k, v) ==
    IF k \in Keys(c)
    THEN [i \in DOMAIN c |-> IF c[i].key = k THEN [key |-> k, value |-> v] ELSE c[i]]
    ELSE Append(c, [key |-> k, value |-> v])

\* OrderedDict.popitem() with its default last=True
popitem_last(c) == SubSeq(c, 1, Len(c) - 1)

\* OrderedDict.popitem(last=False)
popitem_first(c) == Tail(c)

\* LRUCache.get: the returned value
LRUGetValue(c, k) == IF k \notin Keys(c) THEN None ELSE c[Lookup(c, k)].value

\* LRUCache.get without the move_to_end of line 53
LRUGetNoMove(c, k) == c

\* LRUCache.get: the cache afterwards
LRUGet(c, k) == IF k \notin Keys(c) THEN c ELSE move_to_end(c, k)

\* LRUCache.put: lines 57-59 without the move_to_end of line 58
LRUPutInsertNoMove(c, k, v) == setitem(c, k, v)

\* LRUCache.put: lines 57-59, up to and including the insertion
LRUPutInsert(c, k, v) ==
    setitem(IF k \in Keys(c) THEN move_to_end(c, k) ELSE c, k, v)

\* LRUCache.put without the eviction of lines 60-62
LRUPutNoEvict(c, cap) == c

\* LRUCache.put: lines 60-62, the eviction
LRUPutEvict(c, cap) == IF Len(c) > cap THEN popitem_first(c) ELSE c

\* LRUCache.put as one call
LRUPut(c, k, v, cap) == LRUPutEvict(LRUPutInsert(c, k, v), cap)

\* ------------------------------------------------------------------------
\* PDFProcessor._load_pdf_with_fallbacks: the extraction fallback chain
\* ------------------------------------------------------------------------

SeqsUpTo(S, n) == UNION {[1..k -> S] : k \in 0..n}

\* What a document loader does on a PDF (PyPDFLoader(...).load(),
\* PDFPlumberLoader(...).load()): it raises, or returns the pages, each with
\* text or blank (empty or whitespace only).
LoaderOutcomes ==
    {[raises |-> TRUE, pages |-> <<>>]} \cup
    {[raises |-> FALSE, pages |-> ps] : ps \in SeqsUpTo({"text", "blank"}, MaxPages)}

\* What a page-by-page scan does on a PDF (pypdf.PdfReader and
\* extract_text, convert_from_path and image_to_string): opening the file
\* raises, or each page yields text, yields blank, or raises.
ScanOutcomes ==
    {[raises |-> TRUE, pages |-> <<>>]} \cup
    {[raises |-> FALSE, pages |-> ps] :
        ps \in SeqsUpTo({"text", "blank", "raises"}, MaxPages)}

\* The outcome of one strategy's try body: it raised, or it ran to its end
\* and either returned documents (ok) or fell through.
Raised == [raised |-> TRUE, ok |-> FALSE, docs |-> <<>>]

FellThrough == [raised |-> FALSE, ok |-> FALSE, docs |-> <<>>]

Returned(docs) == [raised |-> FALSE, ok |-> TRUE, docs |-> docs]

HasText(pages) == \E i \in DOMAIN pages : pages[i] = "text"

\* lines 130-144 and 151-165 without the has_text test: the pages are
\* returned whenever the loader found some
LoaderBodyNoTextTest(o) ==
    IF o.raises THEN Raised
    ELSE IF o.pages # <<>> THEN Returned(o.pages)
    ELSE FellThrough

\* lines 130-144 and 151-165: load, then return all pages when one of them
\* has text
LoaderBody(o) ==
    IF o.raises THEN Raised
    ELSE IF HasText(o.pages) THEN Returned(o.pages)
    ELSE FellThrough

\* lines 172-195 and 204-235: scan page by page, a page that raises is
\* skipped (lines 186-187, 226-227), the pages with text are returned
ScanBody(o) ==
    IF o.raises THEN Raised
    ELSE IF HasText(o.pages)
         THEN Returned(SelectSeq(o.pages, LAMBDA pg : pg = "text"))
    ELSE FellThrough

\* a try body without its except clause: the exception propagates
NoExcept(body) == body

\* except Exception (lines 145, 166, 196, 236): the error is printed and
\* execution goes on after the try statement
Except(body) == IF body.raised THEN FellThrough ELSE body

\* _load_pdf_with_fallbacks (lines 118-242) on a PDF for which the four
\* strategies behave as o1..o4: whether the call raised, the documents
\* returned, the strategy that returned them (0: none) and the strategies
\* that were run.
LoadPdfWithFallbacks(o1, o2, o3, o4) ==
    LET s1 == Except(LoaderBody(o1))
        s2 == Except(LoaderBody(o2))
        s3 == Except(ScanBody(o3))
        s4 == Except(ScanBody(o4))
        out(s, n) == [raised |-> s.raised, docs |-> s.docs,
                      strategy |-> IF s.ok THEN n ELSE 0, tried |-> 1..n]
    IN  IF s1.raised \/ s1.ok THEN out(s1, 1)
        ELSE IF s2.raised \/ s2.ok THEN out(s2, 2)
        ELSE IF s3.raised \/ s3.ok THEN out(s3, 3)
        ELSE IF s4.raised \/ s4.ok THEN out(s4, 4)
        ELSE [raised |-> FALSE, docs |-> <<>>, strategy |-> 0, tried |-> 1..4]

\* ------------------------------------------------------------------------
\* PDFProcessor: building, persisting and loading a company's vector store
\* ------------------------------------------------------------------------

\* A falsy company_number ("" or None), outside Companies.
NoCompany == 0

CompanyArgs == Companies \cup {NoCompany}

\* What glob finds in DOWNLOAD_FOLDER/<company_number>: no PDF, one PDF
\* from which no strategy extracts text, or that PDF and one with a blank
\* and a text page.  Each PDF is given by the list of pages that
\* _load_pdf_with_fallbacks returns for it; docs is the identity of the
\* document set.
Folders ==
    [pdfs : {<<>>, << <<>> >>, << <<>>, <<"blank", "text">> >>},
     docs : DocumentSets]

\* What _load_pdf_with_fallbacks can return for a PDF: no page, or pages of
\* which at least one has text (each strategy returns only then).
PdfResults ==
    {ps \in SeqsUpTo({"text", "blank"}, MaxPages) : ps = <<>> \/ HasText(ps)}

\* Any content of a download folder of up to MaxPdfs PDFs.
BuildFolders == [pdfs : SeqsUpTo(PdfResults, MaxPdfs), docs : DocumentSets]

\* Outcomes of the embedding and persistence calls of a build:
\* FAISS.from_documents raises ("embed"), save_local raises before it wrote
\* anything ("save"), save_local raises after it overwrote part of the
\* index files ("save_partial"), or none of them raises.
BuildFaults == {"none", "embed", "save", "save_partial"}

\* The directory VECTOR_STORE_PATH/<company_number>: whether it exists, and
\* the vector store FAISS.load_local can read from it (None: nothing
\* loadable).
NoDir == [dir |-> FALSE, index |-> None]

RECURSIVE Concat(_)
\* documents.extend(pdf_documents) over all PDFs (lines 259-268)
Concat(rs) == IF rs = <<>> THEN <<>> ELSE Head(rs) \o Concat(Tail(rs))

\* lines 279-284 without the test of line 281: every page is kept
NonEmptyKeepAll(pages) == pages

\* lines 279-284: the pages with text
NonEmpty(pages) == SelectSeq(pages, LAMBDA pg : pg = "text")

\* a build that puts the store in the cache as soon as it is made, before
\* the directory is made and written: a failure to persist leaves the
\* store in the cache
ProcessCompanyPdfsInstallFirst(c, folder, fault, cache, d) ==
    LET documents == Concat(folder.pdfs)
        chunks == NonEmpty(documents)
        store == [company |-> c, docs |-> folder.docs]
        failed(why) == [ok |-> FALSE, reason |-> why, cache |-> cache, dir |-> d,
                        used |-> <<>>]
        installed == LRUPut(cache, c, store, MAX_CACHE_SIZE)
    IN  IF c = NoCompany THEN failed("NoCompany")
        ELSE IF folder.pdfs = <<>> THEN failed("NoPdfs")
        ELSE IF documents = <<>> THEN failed("NoDocuments")
        ELSE IF chunks = <<>> THEN failed("NoText")
        ELSE IF fault = "embed"
             THEN [ok |-> FALSE, reason |-> "Error", cache |-> cache, dir |-> d,
                   used |-> chunks]
        ELSE IF fault \in {"save", "save_partial"}
             THEN [ok |-> FALSE, reason |-> "Error", cache |-> installed,
                   dir |-> d, used |-> chunks]
        ELSE [ok |-> TRUE, reason |-> "Built", cache |-> installed,
              dir |-> [dir |-> TRUE, index |-> store], used |-> chunks]

\* _process_company_pdfs (lines 244-328) for company c with cache and the
\* company's index directory d: the return value, where it stopped, the
\* cache and directory afterwards, and the documents that were handed to the
\* text splitter and the embedding (line 299).
ProcessCompanyPdfs(c, folder, fault, cache, d) ==
    LET documents == Concat(folder.pdfs)
        chunks == NonEmpty(documents)
        store == [company |-> c, docs |-> folder.docs]
        failed(why) == [ok |-> FALSE, reason |-> why, cache |-> cache, dir |-> d,
                        used |-> <<>>]
    IN  IF c = NoCompany THEN failed("NoCompany")
        ELSE IF folder.pdfs = <<>> THEN failed("NoPdfs")
        ELSE IF documents = <<>> THEN failed("NoDocuments")
        ELSE IF chunks = <<>> THEN failed("NoText")
        ELSE IF fault = "embed"
             THEN [ok |-> FALSE, reason |-> "Error", cache |-> cache, dir |-> d,
                   used |-> chunks]
        ELSE IF fault = "save"
             THEN [ok |-> FALSE, reason |-> "Error", cache |-> cache,
                   dir |-> [dir |-> TRUE, index |-> d.index], used |-> chunks]
        ELSE IF fault = "save_partial"
             THEN [ok |-> FALSE, reason |-> "Error", cache |-> cache,
                   dir |-> [dir |-> TRUE, index |-> None], used |-> chunks]
        ELSE [ok |-> TRUE, reason |-> "Built",
              cache |-> LRUPut(cache, c, store, MAX_CACHE_SIZE),
              dir |-> [dir |-> TRUE, index |-> store], used |-> chunks]

\* FAISS.load_local on the company's directory: the loaded store, or None
\* when it raises (nothing loadable there, or a read error).
LoadLocal(d, readOK) == IF readOK THEN d.index ELSE None

\* Return values of answer_question that are not answers.
MsgSpecify == "Please specify a company number to ask questions about."

MsgFailed == "Failed to process PDFs for company"

MsgNoPdfs == "No PDFs found or processing failed for company"

MsgNoData == "No data available for company"

Messages == {MsgSpecify, MsgFailed, MsgNoPdfs, MsgNoData}

\* No return statement was reached yet: execution goes on.
NoReturn == ""

\* answer_question line 438 left out: the loaded store is not cached
InstallLoadedSkip(cache, c, loaded) == cache

\* answer_question line 438: the loaded store is put in the cache
InstallLoaded(cache, c, loaded) == LRUPut(cache, c, loaded, MAX_CACHE_SIZE)

\* answer_question lines 440-446 without the assignment of line 444: the
\* test of line 445 reads the store of an earlier call
ResolveAfterLoadErrorStale(c, built, vs) ==
    [vs |-> vs, cache |-> built.cache,
     ret |-> IF vs = None THEN MsgFailed ELSE NoReturn]

\* answer_question lines 440-446: the load raised; rebuild and take the
\* store from the cache.
ResolveAfterLoadError(c, built, vs) ==
    [vs |-> LRUGetValue(built.cache, c),
     cache |-> LRUGet(built.cache, c),
     ret |-> IF LRUGetValue(built.cache, c) = None THEN MsgFailed ELSE NoReturn]

\* answer_question lines 448-454 without the return of line 454
ResolveNoDirFallThrough(c, built, vs) ==
    IF built.ok
    THEN [vs |-> LRUGetValue(built.cache, c), cache |-> LRUGet(built.cache, c),
          ret |-> NoReturn]
    ELSE [vs |-> vs, cache |-> built.cache, ret |-> NoReturn]

\* answer_question lines 448-454: no directory; build and take the store
\* from the cache, or return the message.
ResolveNoDir(c, built, vs) ==
    IF built.ok
    THEN [vs |-> LRUGetValue(built.cache, c), cache |-> LRUGet(built.cache, c),
          ret |-> NoReturn]
    ELSE [vs |-> vs, cache |-> built.cache, ret |-> MsgNoPdfs]

\* answer_question lines 419-458: obtaining the vector store.  Yields the
\* cache, the directory and self.vector_store afterwards, the message
\* returned (NoReturn: go on to the QA chain) and which steps were taken.
Resolve(c, folder, fault, readOK, cache, d, vs) ==
    LET cached_vs == LRUGetValue(cache, c)
        cache1 == LRUGet(cache, c)
        loaded == LoadLocal(d, readOK)
        built == ProcessCompanyPdfs(c, folder, fault, cache1, d)
        \* hit: the cache held the store; disk: os.path.exists was evaluated;
        \* load: FAISS.load_local was not called ("no"), returned ("ok") or
        \* raised ("error"); built: _process_company_pdfs was called
        steps(h, e, l, b) == [hit |-> h, disk |-> e, load |-> l, built |-> b]
        finish(r) == [r EXCEPT !.ret = IF r.ret = NoReturn /\ r.vs = None
                                       THEN MsgNoData ELSE r.ret]
    IN  IF c = NoCompany
        THEN [vs |-> vs, cache |-> cache, dir |-> d, ret |-> MsgSpecify,
              steps |-> steps(FALSE, FALSE, "no", FALSE), build |-> "NotCalled"]
        ELSE IF cached_vs # None
        THEN finish([vs |-> cached_vs, cache |-> cache1, dir |-> d, ret |-> NoReturn,
                     steps |-> steps(TRUE, FALSE, "no", FALSE), build |-> "NotCalled"])
        ELSE IF d.dir /\ loaded # None
        THEN finish([vs |-> loaded,
                     cache |-> InstallLoaded(cache1, c, loaded),
                     dir |-> d, ret |-> NoReturn,
                     steps |-> steps(FALSE, TRUE, "ok", FALSE), build |-> "NotCalled"])
        ELSE IF d.dir
        THEN LET r == ResolveAfterLoadError(c, built, vs)
             IN  finish([vs |-> r.vs, cache |-> r.cache, dir |-> built.dir,
                         ret |-> r.ret,
                         steps |-> steps(FALSE, TRUE, "error", TRUE),
                         build |-> built.reason])
        ELSE LET r == ResolveNoDir(c, built, vs)
             IN  finish([vs |-> r.vs, cache |-> r.cache, dir |-> built.dir,
                         ret |-> r.ret,
                         steps |-> steps(FALSE, TRUE, "no", TRUE),
                         build |-> built.reason])

\* ------------------------------------------------------------------------
\* State
\* ------------------------------------------------------------------------

VARIABLES
    lru,        \* a stand-alone LRUCache (the OrderedDict's items, in order)
    log,        \* history: the get/put calls made on lru so far
    tpc,        \* per task: the statement of LRUCache.get/put it is at
    targ,       \* per task: the arguments of its call in progress
    tseen,      \* per task: len(self) as its last get found it
    tresult,    \* per task: how its last get ended ("hit", "miss", "KeyError")
    company_vector_stores,  \* PDFProcessor.company_vector_stores (an LRUCache)
    vector_store,           \* PDFProcessor.vector_store, the active store
    vsdisk,     \* per company: the directory VECTOR_STORE_PATH/<company>
    last,       \* history: the last call on the processor and its outcome
    pdf_file,   \* the PDF given to _load_pdf_with_fallbacks: how the four
                \* strategies behave on it
    extracted,  \* what _load_pdf_with_fallbacks did on pdf_file
    request,    \* history: the last HTTP request, how the entry point of
                \* process_qa it called ended, and the response; or the
                \* last direct call of an entry point and how it ended
    handler,    \* per task: the request it is handling and where it is in it
    observed,   \* per task: what its last look at a store directory found
    built       \* history: the last call of _process_company_pdfs, what it
                \* was given and how it ended

cacheVars == <<lru, log>>

taskVars == <<tpc, targ, tseen, tresult>>

procVars == <<company_vector_stores, vector_store, vsdisk, last>>

extractVars == <<pdf_file, extracted>>

vars == <<lru, log, tpc, targ, tseen, tresult,
          company_vector_stores, vector_store, vsdisk, last,
          pdf_file, extracted, request, handler, observed, built>>

appVars == <<handler, observed>>

buildVars == <<built>>

InitTasks ==
    /\ tpc = [t \in Tasks |-> "idle"]
    /\ targ = [t \in Tasks |-> None]
    /\ tseen = [t \in Tasks |-> 0]
    /\ tresult = [t \in Tasks |-> "none"]

\* No PDF is being extracted, no request was made.
InitNoPdf ==
    /\ pdf_file = None
    /\ extracted = None
    /\ request = [op |-> "none"]
    /\ handler = [t \in Tasks |-> [pc |-> "idle"]]
    /\ observed = [t \in Tasks |-> "nothing"]
    /\ built = None

\* PDFProcessor.__init__ (lines 66-78) with an empty VECTOR_STORE_PATH
\* (line 38)
InitProcessor ==
    /\ company_vector_stores = <<>>
    /\ vector_store = None
    /\ vsdisk = [c \in Companies |-> NoDir]
    /\ last = [op |-> "init"]

\* ------------------------------------------------------------------------
\* The entry points of process_qa.py and their handlers in app.py
\* ------------------------------------------------------------------------

MsgBothRequired == "Both question and company number are required."

\* one PDFProcessor kept by the module and used by every call of an entry
\* point: the processor is the one the previous call left
PDFProcessorKept ==
    [company_vector_stores |-> company_vector_stores,
     vector_store |-> vector_store]

\* processor = PDFProcessor() (lines 477 and 491, with lines 66-78): every
\* call of an entry point constructs its processor, with an empty cache and
\* no active store
PDFProcessorNew ==
    [company_vector_stores |-> <<>>, vector_store |-> None]

\* A question: missing/empty, or a text.
Questions == {"", "q"}

\* process_qa.answer_question with the test of line 488 made after the
\* processor is constructed
AnswerEntryConstructFirst(q, c, initOK, folder, fault, readOK, chain, d) ==
    LET p == PDFProcessorNew
        r == Resolve(c, folder, fault, readOK, p.company_vector_stores, d,
                     p.vector_store)
        none == [hit |-> FALSE, disk |-> FALSE, load |-> "no", built |-> FALSE]
        \* made: PDFProcessor() returned a processor; started, cache, vs:
        \* its cache after __init__, and its cache and active store when
        \* the call ended
        out(o, v, dir, constructed, resolved) ==
            LET made == constructed /\ initOK
            IN  [outcome |-> o, value |-> v, dir |-> dir,
                 constructed |-> constructed, made |-> made,
                 started |-> IF made THEN p.company_vector_stores ELSE <<>>,
                 steps |-> IF resolved THEN r.steps ELSE none,
                 cache |-> IF resolved THEN r.cache
                           ELSE IF made THEN p.company_vector_stores ELSE <<>>,
                 vs |-> IF resolved THEN r.vs
                        ELSE IF made THEN p.vector_store ELSE None]
    IN  IF ~initOK THEN out("raised", "init", d, TRUE, FALSE)
        ELSE IF q = "" \/ c = NoCompany
        THEN out("returned", MsgBothRequired, d, TRUE, FALSE)
        ELSE IF r.ret # NoReturn THEN out("returned", r.ret, r.dir, TRUE, TRUE)
        ELSE IF chain = "ok" THEN out("returned", "answer", r.dir, TRUE, TRUE)
        ELSE out("raised", "chain", r.dir, TRUE, TRUE)

\* process_qa.answer_question(question, company_number), lines 483-492, on
\* the company's directory d: whether the call returned or raised, what it
\* returned, the directory afterwards, whether PDFProcessor() was called,
\* the cache the processor started with, the steps of the resolution, and
\* the cache and active store the processor ended with.  initOK:
\* PDFProcessor() did not raise (lines 79-83 re-raise any error of the
\* constructor).
AnswerEntry(q, c, initOK, folder, fault, readOK, chain, d) ==
    LET p == PDFProcessorNew
        r == Resolve(c, folder, fault, readOK, p.company_vector_stores, d,
                     p.vector_store)
        none == [hit |-> FALSE, disk |-> FALSE, load |-> "no", built |-> FALSE]
        \* made: PDFProcessor() returned a processor; started, cache, vs:
        \* its cache after __init__, and its cache and active store when
        \* the call ended
        out(o, v, dir, constructed, resolved) ==
            LET made == constructed /\ initOK
            IN  [outcome |-> o, value |-> v, dir |-> dir,
                 constructed |-> constructed, made |-> made,
                 started |-> IF made THEN p.company_vector_stores ELSE <<>>,
                 steps |-> IF resolved THEN r.steps ELSE none,
                 cache |-> IF resolved THEN r.cache
                           ELSE IF made THEN p.company_vector_stores ELSE <<>>,
                 vs |-> IF resolved THEN r.vs
                        ELSE IF made THEN p.vector_store ELSE None]
    IN  IF q = "" \/ c = NoCompany
        THEN out("returned", MsgBothRequired, d, FALSE, FALSE)
        ELSE IF ~initOK THEN out("raised", "init", d, TRUE, FALSE)
        ELSE IF r.ret # NoReturn THEN out("returned", r.ret, r.dir, TRUE, TRUE)
        ELSE IF chain = "ok" THEN out("returned", "answer", r.dir, TRUE, TRUE)
        ELSE out("raised", "chain", r.dir, TRUE, TRUE)

\* process_qa.process_pdfs(company_number), lines 468-479, with
\* load_and_process_pdfs (lines 94-116): returns the processor (TRUE) or
\* None (FALSE), or raises; and whether PDFProcessor() was called, with
\* the processor's cache after __init__ and its cache and active store when
\* the call ended.
ProcessEntry(c, initOK, folder, fault, d) ==
    LET p == PDFProcessorNew
        b == ProcessCompanyPdfs(c, folder, fault, p.company_vector_stores, d)
        none == [hit |-> FALSE, disk |-> FALSE, load |-> "no", built |-> FALSE]
        out(o, v, dir, constructed, called) ==
            LET made == constructed /\ initOK
            IN  [outcome |-> o, value |-> v, dir |-> dir,
                 constructed |-> constructed, made |-> made,
                 started |-> IF made THEN p.company_vector_stores ELSE <<>>,
                 steps |-> [none EXCEPT !.built = called],
                 \* line 114: self.company_vector_stores.get(specific_company)
                 cache |-> IF called /\ b.ok THEN LRUGet(b.cache, c)
                           ELSE IF called THEN b.cache
                           ELSE IF made THEN p.company_vector_stores ELSE <<>>,
                 vs |-> IF called /\ b.ok THEN LRUGetValue(b.cache, c)
                        ELSE IF made THEN p.vector_store ELSE None]
    IN  IF c = NoCompany THEN out("returned", FALSE, d, FALSE, FALSE)
        ELSE IF ~initOK THEN out("raised", FALSE, d, TRUE, FALSE)
        ELSE IF folder.pdfs = <<>> THEN out("returned", FALSE, d, TRUE, FALSE)
        ELSE out("returned", b.ok, b.dir, TRUE, TRUE)

\* a handler whose try has no except clause: the exception leaves the
\* handler and no response is made by it
UncaughtResponse(e) ==
    IF e.outcome = "raised"
    THEN [status |-> 0, success |-> FALSE, body |-> "uncaught"]
    ELSE [status |-> 200, success |-> TRUE, body |-> e.value]

\* handle_question_api, lines 269-288: the answer, or the exception as a
\* structured failure
AskResponse(e) ==
    IF e.outcome = "raised"
    THEN [status |-> 500, success |-> FALSE, body |-> "error"]
    ELSE [status |-> 200, success |-> TRUE, body |-> e.value]

\* handle_process_pdfs, lines 187-208
ProcessResponse(e) ==
    IF e.outcome = "raised"
    THEN [status |-> 500, success |-> FALSE, body |-> "error"]
    ELSE IF e.value
    THEN [status |-> 200, success |-> TRUE, body |-> "processed"]
    ELSE [status |-> 400, success |-> FALSE, body |-> "error"]

\* lines 261-265 and 179-183: a request that misses a field
BadRequest == [status |-> 400, success |-> FALSE, body |-> "error"]

\* ------------------------------------------------------------------------
\* Specification SpecCache: sequential get/put calls on one LRUCache
\* ------------------------------------------------------------------------

InitCache ==
    /\ lru = <<>>
    /\ log = <<>>
    /\ InitTasks
    /\ InitProcessor
    /\ InitNoPdf

\* LRUCache.get(key)
get(k) ==
    /\ Len(log) < MaxOps
    /\ lru' = LRUGet(lru, k)
    /\ log' = Append(log, [op |-> "get", key |-> k, hit |-> k \in Keys(lru),
                            value |-> LRUGetValue(lru, k)])
    /\ UNCHANGED <<taskVars, procVars, extractVars, request, appVars, buildVars>>

\* LRUCache.put(key, value)
put(k, v) ==
    /\ Len(log) < MaxOps
    /\ lru' = LRUPut(lru, k, v, MAX_CACHE_SIZE)
    /\ log' = Append(log, [op |-> "put", key |-> k, hit |-> k \in Keys(lru),
                            value |-> v])
    /\ UNCHANGED <<taskVars, procVars, extractVars, request, appVars, buildVars>>

\* The values put under a key: two distinguishable vector stores of it.
PutValues(k) == {[company |-> k, docs |-> n] : n \in DocumentSets}

NextCache ==
    \/ \E k \in Companies : get(k)
    \/ \E k \in Companies : \E v \in PutValues(k) : put(k, v)

SpecCache == InitCache /\ [][NextCache]_vars

\* ------------------------------------------------------------------------
\* Specification SpecCacheTasks: tasks calling get/put on one shared
\* LRUCache.  The class takes no lock, so the calls interleave at the
\* statements of get (lines 51-54) and put (lines 57-62).
\* ------------------------------------------------------------------------

InitCacheTasks ==
    /\ lru = <<>>
    /\ log = <<>>
    /\ InitTasks
    /\ InitProcessor
    /\ InitNoPdf

\* LRUCache.get, lines 51-52: the membership test
get_check(t, k) ==
    /\ tpc[t] = "idle"
    /\ tseen' = [tseen EXCEPT ![t] = Len(lru)]
    /\ IF k \notin Keys(lru)
       THEN /\ tresult' = [tresult EXCEPT ![t] = "miss"]
            /\ UNCHANGED <<tpc, targ>>
       ELSE /\ tpc' = [tpc EXCEPT ![t] = "get_move"]
            /\ targ' = [targ EXCEPT ![t] = [key |-> k, value |-> None]]
            /\ UNCHANGED tresult
    /\ UNCHANGED <<lru, log, procVars, extractVars, request, appVars, buildVars>>

\* LRUCache.get, lines 53-54: move_to_end and the lookup; both raise
\* KeyError when another task's put has evicted the key since the test.
get_move(t) ==
    /\ tpc[t] = "get_move"
    /\ IF targ[t].key \in Keys(lru)
       THEN /\ lru' = move_to_end(lru, targ[t].key)
            /\ tresult' = [tresult EXCEPT ![t] = "hit"]
       ELSE /\ tresult' = [tresult EXCEPT ![t] = "KeyError"]
            /\ UNCHANGED lru
    /\ tpc' = [tpc EXCEPT ![t] = "idle"]
    /\ targ' = [targ EXCEPT ![t] = None]
    /\ UNCHANGED <<log, tseen, procVars, extractVars, request, appVars, buildVars>>

\* LRUCache.put, lines 57-59: move_to_end of a key already held, and the
\* assignment self[key] = value
put_insert(t, k, v) ==
    /\ tpc[t] = "idle"
    /\ lru' = LRUPutInsert(lru, k, v)
    /\ tpc' = [tpc EXCEPT ![t] = "put_evict"]
    /\ targ' = [targ EXCEPT ![t] = [key |-> k, value |-> v]]
    /\ UNCHANGED <<log, tseen, tresult, procVars, extractVars, request, appVars, buildVars>>

\* LRUCache.put, lines 60-62: the test of len(self) and popitem(last=False)
put_evict(t) ==
    /\ tpc[t] = "put_evict"
    /\ lru' = LRUPutEvict(lru, MAX_CACHE_SIZE)
    /\ tpc' = [tpc EXCEPT ![t] = "idle"]
    /\ targ' = [targ EXCEPT ![t] = None]
    /\ UNCHANGED <<log, tseen, tresult, procVars, extractVars, request, appVars, buildVars>>

NextCacheTasks ==
    \/ \E t \in Tasks, k \in Companies : get_check(t, k)
    \/ \E t \in Tasks : get_move(t)
    \/ \E t \in Tasks, k \in Companies : \E v \in PutValues(k) :
          put_insert(t, k, v)
    \/ \E t \in Tasks : put_evict(t)

SpecCacheTasks == InitCacheTasks /\ [][NextCacheTasks]_vars

\* C4: the capacity is a hard bound under concurrency: no task's get ever
\* finds more than K entries in the cache, not even between the insertion
\* and the eviction of another task's put.
C4_HardBound == \A t \in Tasks : tseen[t] <= MAX_CACHE_SIZE

\* ------------------------------------------------------------------------
\* Specification SpecProcessor: a sequence of calls on one PDFProcessor
\* ------------------------------------------------------------------------

InitProc ==
    /\ lru = <<>>
    /\ log = <<>>
    /\ InitTasks
    /\ InitProcessor
    /\ InitNoPdf

Dir(c) == IF c = NoCompany THEN NoDir ELSE vsdisk[c]

\* the path of line 315 taken without the company number: the directory
\* is the one of every company
SetDirShared(c, d) == IF c = NoCompany THEN vsdisk ELSE [k \in Companies |-> d]

SetDir(c, d) == IF c = NoCompany THEN vsdisk ELSE [vsdisk EXCEPT ![c] = d]

\* Outcomes of the QA chain (lines 461-462): it returns the answer, or the
\* similarity search or the language model raises.
ChainOutcomes == {"ok", "raised"}

\* PDFProcessor.answer_question(question, company_number), lines 414-464
answer_question(c, folder, fault, readOK, chain) ==
    \E r \in {Resolve(c, folder, fault, readOK, company_vector_stores,
                     Dir(c), vector_store)} :
        /\ company_vector_stores' = r.cache
        /\ vector_store' = r.vs
        /\ vsdisk' = SetDir(c, r.dir)
        /\ last' = [op |-> "answer_question", company |-> c,
                     cached |-> LRUGetValue(company_vector_stores, c) # None,
                     dir |-> Dir(c).dir,
                     steps |-> r.steps, build |-> r.build,
                     result |-> IF r.ret # NoReturn THEN "message"
                                ELSE IF chain = "ok" THEN "answer" ELSE "raised",
                     msg |-> r.ret,
                     retrieved |-> IF r.ret # NoReturn THEN None ELSE r.vs]
        /\ UNCHANGED <<cacheVars, taskVars, extractVars, request, appVars, buildVars>>

\* PDFProcessor.load_and_process_pdfs(specific_company), lines 89-116
load_and_process_pdfs(c, folder, fault) ==
    \E b \in {IF c = NoCompany \/ folder.pdfs = <<>>
              THEN [ok |-> FALSE, reason |-> "NoInput",
                    cache |-> company_vector_stores, dir |-> Dir(c),
                    used |-> <<>>]
              ELSE ProcessCompanyPdfs(c, folder, fault, company_vector_stores,
                                      Dir(c))} :
        /\ company_vector_stores' = IF b.ok THEN LRUGet(b.cache, c) ELSE b.cache
        /\ vector_store' = IF b.ok THEN LRUGetValue(b.cache, c) ELSE vector_store
        /\ vsdisk' = SetDir(c, b.dir)
        /\ last' = [op |-> "other"]
        /\ UNCHANGED <<cacheVars, taskVars, extractVars, request, appVars, buildVars>>

\* PDFProcessor.update_vector_store(company_number), lines 330-343
update_vector_store(c, folder, fault) ==
    \E b \in {ProcessCompanyPdfs(c, folder, fault, company_vector_stores,
                                  Dir(c))} :
        /\ company_vector_stores' = IF b.ok THEN LRUGet(b.cache, c) ELSE b.cache
        /\ vector_store' = IF b.ok THEN LRUGetValue(b.cache, c) ELSE vector_store
        /\ vsdisk' = SetDir(c, b.dir)
        /\ last' = [op |-> "other"]
        /\ UNCHANGED <<cacheVars, taskVars, extractVars, request, appVars, buildVars>>

\* PDFProcessor.load_vector_store(company_number), lines 345-381
load_vector_store(c, readOK) ==
    LET cached_vs == LRUGetValue(company_vector_stores, c)
        loaded == LoadLocal(Dir(c), readOK)
    IN  /\ IF c = NoCompany
           THEN UNCHANGED <<company_vector_stores, vector_store>>
           ELSE IF cached_vs # None
           THEN /\ company_vector_stores' = LRUGet(company_vector_stores, c)
                /\ vector_store' = cached_vs
           ELSE IF Dir(c).dir /\ loaded # None
           THEN /\ company_vector_stores' =
                      LRUPut(company_vector_stores, c, loaded, MAX_CACHE_SIZE)
                /\ vector_store' = loaded
           ELSE UNCHANGED <<company_vector_stores, vector_store>>
        /\ last' = [op |-> "other"]
        /\ UNCHANGED <<vsdisk, cacheVars, taskVars, extractVars, request, appVars, buildVars>>

\* The inputs of a build, each outcome once: a folder from which nothing is
\* embedded comes with no fault, and a build that fails comes with the
\* first document set (neither is read).
BuildInputs ==
    {b \in [folder : Folders, fault : BuildFaults] :
        /\ NonEmpty(Concat(b.folder.pdfs)) = <<>> => b.fault = "none"
        /\ (NonEmpty(Concat(b.folder.pdfs)) = <<>> \/ b.fault # "none")
              => b.folder.docs = "A"}

\* A build input for a call that does not build.
NoBuild == [folder |-> [pdfs |-> <<>>, docs |-> "A"], fault |-> "none"]

\* The inputs answer_question reads in the current state, each outcome once:
\* the read outcome when it calls load_local on a loadable directory, the
\* build inputs when it calls _process_company_pdfs.
ReadInputs(c) ==
    IF /\ LRUGetValue(company_vector_stores, c) = None
       /\ Dir(c).dir /\ Dir(c).index # None
    THEN BOOLEAN ELSE {TRUE}

AnswerBuildInputs(c, readOK) ==
    IF /\ c # NoCompany
       /\ LRUGetValue(company_vector_stores, c) = None
       /\ (~Dir(c).dir \/ LoadLocal(Dir(c), readOK) = None)
    THEN BuildInputs ELSE {NoBuild}

\* The outcomes of the QA chain when answer_question gets to it: it does
\* not when there is no company number, or when the store has to be built
\* and the build fails.
ChainInputs(c, readOK, b) ==
    IF c = NoCompany THEN {"ok"}
    ELSE IF AnswerBuildInputs(c, readOK) = {NoBuild} THEN ChainOutcomes
    ELSE IF NonEmpty(Concat(b.folder.pdfs)) # <<>> /\ b.fault = "none"
    THEN ChainOutcomes
    ELSE {"ok"}

\* The inputs of a build by load_and_process_pdfs and update_vector_store,
\* each outcome once: the builds that fail before anything is written
\* (no PDF, no text, the embedding raises) leave the same state and the same
\* return value, and come as the folder without PDFs.
UpdateInputs(c) ==
    IF c = NoCompany THEN {NoBuild}
    ELSE {b \in BuildInputs :
            NonEmpty(Concat(b.folder.pdfs)) = <<>> \/ b.fault = "embed"
                => b.folder.pdfs = <<>>}

NextProc ==
    \/ \E c \in CompanyArgs : \E readOK \in ReadInputs(c) :
          \E b \in AnswerBuildInputs(c, readOK) :
            \E chain \in ChainInputs(c, readOK, b) :
              answer_question(c, b.folder, b.fault, readOK, chain)
    \/ \E c \in CompanyArgs : \E b \in UpdateInputs(c) :
            load_and_process_pdfs(c, b.folder, b.fault)
    \/ \E c \in CompanyArgs : \E b \in UpdateInputs(c) :
            update_vector_store(c, b.folder, b.fault)
    \/ \E c \in CompanyArgs : \E readOK \in ReadInputs(c) :
            load_vector_store(c, readOK)

SpecProcessor == InitProc /\ [][NextProc]_vars

\* ------------------------------------------------------------------------
\* Specification SpecBuild: _process_company_pdfs called once, on a new
\* PDFProcessor, for any content of the company's download folder
\* ------------------------------------------------------------------------

InitBuild ==
    /\ lru = <<>>
    /\ log = <<>>
    /\ InitTasks
    /\ InitProcessor
    /\ InitNoPdf

\* PDFProcessor._process_company_pdfs(company_number), lines 244-328
process_company_pdfs(c, folder, fault) ==
    /\ \E b \in {ProcessCompanyPdfs(c, folder, fault, company_vector_stores,
                                    Dir(c))} :
        /\ company_vector_stores' = b.cache
        /\ vsdisk' = SetDir(c, b.dir)
        /\ built' = [company |-> c, folder |-> folder, fault |-> fault,
                      ok |-> b.ok, reason |-> b.reason, used |-> b.used,
                      before |-> Dir(c).index]
    /\ UNCHANGED <<cacheVars, taskVars, extractVars, request, appVars,
                   vector_store, last>>

NextBuild ==
    /\ built = None
    /\ \E c \in CompanyArgs, folder \in BuildFolders, fault \in BuildFaults :
          process_company_pdfs(c, folder, fault)

SpecBuild == InitBuild /\ [][NextBuild]_vars

\* The pages with text of the PDFs of a folder: (PDF, page) positions.
TextPages(folder) ==
    {pos \in (DOMAIN folder.pdfs) \X (1..MaxPages) :
        /\ pos[2] \in DOMAIN folder.pdfs[pos[1]]
        /\ folder.pdfs[pos[1]][pos[2]] = "text"}

\* The build stopped because there was nothing to index.
LackOfContent == {"NoPdfs", "NoDocuments", "NoText"}

\* C12: PDFs from which nothing is extracted do not fail the build of a
\* company: the build stops for lack of content only when no PDF of the
\* folder yields a page with text; otherwise it goes on to split and embed
\* exactly the pages with text of the PDFs that were extracted, and succeeds
\* unless the embedding or the persistence fails.
C12_PartialExtraction ==
    built # None /\ built.company # NoCompany =>
        /\ built.reason \in LackOfContent <=> TextPages(built.folder) = {}
        /\ TextPages(built.folder) # {} =>
              /\ Len(built.used) = Cardinality(TextPages(built.folder))
              /\ \A i \in DOMAIN built.used : built.used[i] = "text"
              /\ built.ok <=> built.fault = "none"

\* A folder with a PDF from which nothing was extracted and a PDF with a
\* blank page and a page with text was built into a store from one page.
C12_Witness ==
    /\ built # None
    /\ built.ok
    /\ \E i \in DOMAIN built.folder.pdfs : built.folder.pdfs[i] = <<>>
    /\ \E i \in DOMAIN built.folder.pdfs :
          HasText(built.folder.pdfs[i]) /\ ~(\A j \in DOMAIN built.folder.pdfs[i] :
                                                built.folder.pdfs[i][j] = "text")
    /\ Len(built.used) = 1
    /\ vsdisk[built.company].index # None

\* What the caller of _process_company_pdfs gets back from a call that
\* ended as b: the value of its return statement (False at lines 248, 255,
\* 276, 289, 304 and 328, True at line 322).
ReturnValue(b) == b.ok

\* C13: the result of a failed build tells its cause: two builds that fail
\* for different causes (no PDF in the folder, PDFs without extractable
\* text, an error of the embedding or the persistence) hand different
\* results to their caller.
C13_ReasonDistinguishes ==
    built # None /\ ~built.ok =>
        \A c \in CompanyArgs, folder \in BuildFolders :
            LET other == ProcessCompanyPdfs(c, folder, "none", <<>>, NoDir)
            IN  ~other.ok /\ other.reason # built.reason
                    => ReturnValue(other) # ReturnValue(built)

\* ------------------------------------------------------------------------
\* Specification SpecRebuild: _process_company_pdfs called again and again
\* on one PDFProcessor, for any companies
\* ------------------------------------------------------------------------

InitRebuild ==
    /\ lru = <<>>
    /\ log = <<>>
    /\ InitTasks
    /\ InitProcessor
    /\ InitNoPdf

NextRebuild ==
    \E c \in CompanyArgs, b \in BuildInputs :
        process_company_pdfs(c, b.folder, b.fault)

SpecRebuild == InitRebuild /\ [][NextRebuild]_vars

\* The entries of a cache that are not the one of company c, in their order.
OtherEntries(cache, c) == SelectSeq(cache, LAMBDA e : e.key # c)

\* The step is a call of _process_company_pdfs that failed and left the
\* entries, their recency order and the directories of the other companies
\* as they were.
FailedBuildKeepsOthers ==
    ~built'.ok =>
        /\ OtherEntries(company_vector_stores', built'.company) =
              OtherEntries(company_vector_stores, built'.company)
        /\ \A c \in Companies \ {built'.company} : vsdisk'[c] = vsdisk[c]

\* C14: a build that fails for one company, at whichever step (no PDFs, no
\* extractable text, an error of the embedding or of the persistence),
\* leaves the cached entries of the other companies, their recency order
\* and their directories on disk unchanged.
C14_FailureIsScoped == [][FailedBuildKeepsOthers]_vars

\* A build failed in save_local, after it had overwritten part of the
\* company's index, while the cache is full of other companies' stores
\* that are on disk too.
C14_Witness ==
    /\ built # None
    /\ ~built.ok
    /\ built.fault = "save_partial"
    /\ built.before # None
    /\ Len(company_vector_stores) = MAX_CACHE_SIZE
    /\ \A k \in Keys(company_vector_stores) :
          k # built.company /\ vsdisk[k].index # None

\* The vector store a build makes for a company from a folder.
StoreOf(c, folder) == [company |-> c, docs |-> folder.docs]

\* The step is a call of _process_company_pdfs that succeeded: the new
\* store is in the company's directory and is the last (most recently used)
\* entry of the cache, get returns it, and of the entries of the other
\* companies at most one, the least recently used, is gone.
SuccessfulBuildInstalls ==
    built'.ok =>
        LET T == built'.company
            new == StoreOf(T, built'.folder)
            others == OtherEntries(company_vector_stores, T)
            others_after == OtherEntries(company_vector_stores', T)
        IN  /\ vsdisk'[T] = [dir |-> TRUE, index |-> new]
            /\ LRUGetValue(company_vector_stores', T) = new
            /\ company_vector_stores'[Len(company_vector_stores')] =
                  [key |-> T, value |-> new]
            /\ Len(company_vector_stores') <= MAX_CACHE_SIZE
            /\ others_after = others \/ others_after = Tail(others)
            /\ Cardinality(Keys(company_vector_stores)
                              \ Keys(company_vector_stores')) <= 1

\* The step is a call of _process_company_pdfs in which save_local raised:
\* the cache is as it was.
FailedSaveKeepsCache ==
    built'.fault \in {"save", "save_partial"} /\ built'.reason = "Error"
        => company_vector_stores' = company_vector_stores

\* C18: a successful build persists the new store in the company's
\* directory and then installs it in the cache: afterwards get returns the
\* new store, the company is the most recently used entry and at most one
\* other entry was evicted; when the persistence fails the cache is not
\* modified.
C18_PersistThenInstall ==
    [][SuccessfulBuildInstalls /\ FailedSaveKeepsCache]_vars

\* A company whose directory held another store was built again: it is now
\* the most recently used entry of a full cache, and its directory holds the
\* new store.
C18_Witness ==
    /\ built # None
    /\ built.ok
    /\ built.before # None
    /\ built.before # StoreOf(built.company, built.folder)
    /\ Len(company_vector_stores) = MAX_CACHE_SIZE
    /\ company_vector_stores[MAX_CACHE_SIZE].key = built.company
    /\ vsdisk[built.company].index = StoreOf(built.company, built.folder)

\* C19: a rebuild replaces: after a successful build of a company, its
\* entry in the cache and the index in its directory are the store made
\* from the documents now in its folder, whatever store the cache or the
\* directory held for it before, and the cache holds one entry for it.
C19_FullReplacement ==
    built # None /\ built.ok =>
        LET T == built.company
            new == StoreOf(T, built.folder)
        IN  /\ vsdisk[T].index = new
            /\ LRUGetValue(company_vector_stores, T) = new
            /\ Cardinality({i \in DOMAIN company_vector_stores :
                                company_vector_stores[i].key = T}) = 1
            /\ Len(built.used) = Cardinality(TextPages(built.folder))

\* A company whose directory held the store of one document set was built
\* again from another document set, on a processor that caches other
\* companies too.
C19_Witness ==
    /\ built # None
    /\ built.ok
    /\ built.before # None
    /\ built.before.docs # built.folder.docs
    /\ vsdisk[built.company].index.docs = built.folder.docs
    /\ Len(company_vector_stores) > 1

\* ------------------------------------------------------------------------
\* Specification SpecExtract: _load_pdf_with_fallbacks on any PDF
\* ------------------------------------------------------------------------

InitExtract ==
    /\ lru = <<>>
    /\ log = <<>>
    /\ InitTasks
    /\ InitProcessor
    /\ pdf_file \in [s1 : LoaderOutcomes, s2 : LoaderOutcomes,
                      s3 : ScanOutcomes, s4 : ScanOutcomes]
    /\ extracted = None
    /\ request = [op |-> "none"]
    /\ handler = [t \in Tasks |-> [pc |-> "idle"]]
    /\ observed = [t \in Tasks |-> "nothing"]
    /\ built = None

\* PDFProcessor._load_pdf_with_fallbacks(pdf_file), lines 118-242
load_pdf_with_fallbacks ==
    /\ extracted = None
    /\ extracted' = LoadPdfWithFallbacks(pdf_file.s1, pdf_file.s2,
                                         pdf_file.s3, pdf_file.s4)
    /\ UNCHANGED <<pdf_file, cacheVars, taskVars, procVars, request, appVars, buildVars>>

NextExtract == load_pdf_with_fallbacks

SpecExtract == InitExtract /\ [][NextExtract]_vars

\* ------------------------------------------------------------------------
\* Specification SpecApi: HTTP requests handled one after the other, each
\* by a fresh PDFProcessor, over the vector store directories they share
\* ------------------------------------------------------------------------

InitApi ==
    /\ lru = <<>>
    /\ log = <<>>
    /\ InitTasks
    /\ InitProcessor
    /\ InitNoPdf

\* handle_question_api (POST /ask), app.py lines 245-288
handle_question_api(q, c, initOK, folder, fault, readOK, chain) ==
    /\ IF q = "" \/ c = NoCompany
       THEN /\ request' = [op |-> "ask", company |-> c, entry |-> "not called",
                            response |-> BadRequest]
            /\ UNCHANGED vsdisk
       ELSE \E e \in {AnswerEntry(q, c, initOK, folder, fault, readOK, chain,
                                   Dir(c))} :
            /\ request' = [op |-> "ask", company |-> c, entry |-> e.outcome,
                            response |-> AskResponse(e)]
            /\ vsdisk' = SetDir(c, e.dir)
    /\ UNCHANGED <<cacheVars, taskVars, extractVars, appVars, buildVars,
                   company_vector_stores, vector_store, last>>

\* handle_process_pdfs (POST /process_pdfs), app.py lines 164-208
handle_process_pdfs(c, initOK, folder, fault) ==
    /\ IF c = NoCompany
       THEN /\ request' = [op |-> "process", company |-> c,
                            entry |-> "not called", response |-> BadRequest]
            /\ UNCHANGED vsdisk
       ELSE \E e \in {ProcessEntry(c, initOK, folder, fault, Dir(c))} :
            /\ request' = [op |-> "process", company |-> c,
                            entry |-> e.outcome, response |-> ProcessResponse(e)]
            /\ vsdisk' = SetDir(c, e.dir)
    /\ UNCHANGED <<cacheVars, taskVars, extractVars, appVars, buildVars,
                   company_vector_stores, vector_store, last>>

\* list_companies (GET /companies), app.py lines 212-240: the names of the
\* directories in the vector store path
handle_list_companies ==
    /\ request' = [op |-> "companies", company |-> NoCompany,
                    entry |-> "not called",
                    response |-> [status |-> 200, success |-> TRUE,
                                  body |-> {c \in Companies : vsdisk[c].dir}]]
    /\ UNCHANGED vsdisk
    /\ UNCHANGED <<cacheVars, taskVars, extractVars, appVars, buildVars,
                   company_vector_stores, vector_store, last>>

\* The inputs a request reads, each outcome once.
ApiBuildInputs(c, initOK, builds) ==
    IF c # NoCompany /\ initOK /\ builds THEN BuildInputs ELSE {NoBuild}

ApiReadInputs(c, initOK) ==
    IF c # NoCompany /\ initOK /\ Dir(c).dir /\ Dir(c).index # None
    THEN BOOLEAN ELSE {TRUE}

NextApi ==
    \/ \E q \in Questions, c \in CompanyArgs, initOK \in BOOLEAN :
          \E readOK \in ApiReadInputs(c, initOK), chain \in ChainOutcomes :
            \E b \in ApiBuildInputs(c, initOK,
                         q # "" /\ (~Dir(c).dir \/ LoadLocal(Dir(c), readOK) = None)) :
              handle_question_api(q, c, initOK, b.folder, b.fault, readOK, chain)
    \/ \E c \in CompanyArgs, initOK \in BOOLEAN :
          \E b \in ApiBuildInputs(c, initOK, TRUE) :
            handle_process_pdfs(c, initOK, b.folder, b.fault)
    \/ handle_list_companies

SpecApi == InitApi /\ [][NextApi]_vars

InitEntry ==
    /\ lru = <<>>
    /\ log = <<>>
    /\ InitTasks
    /\ InitProcessor
    /\ InitNoPdf

\* process_qa.answer_question(question, company_number), lines 483-492
answer_question_entry(q, c, initOK, folder, fault, readOK, chain) ==
    /\ \E e \in {AnswerEntry(q, c, initOK, folder, fault, readOK, chain,
                               Dir(c))} :
        /\ request' = [op |-> "answer_question", question |-> q,
                        company |-> c, initOK |-> initOK,
                        entry |-> e.outcome, value |-> e.value,
                        constructed |-> e.constructed, made |-> e.made,
                        started |-> e.started, steps |-> e.steps,
                        previous |-> c \in Keys(company_vector_stores)]
        /\ vsdisk' = SetDir(c, e.dir)
        /\ company_vector_stores' = e.cache
        /\ vector_store' = e.vs
    /\ UNCHANGED <<cacheVars, taskVars, extractVars, appVars, buildVars, last>>

\* process_qa.process_pdfs(company_number), lines 468-479
process_pdfs(c, initOK, folder, fault) ==
    /\ \E e \in {ProcessEntry(c, initOK, folder, fault, Dir(c))} :
        /\ request' = [op |-> "process_pdfs", question |-> "",
                        company |-> c, initOK |-> initOK,
                        entry |-> e.outcome, value |-> e.value,
                        constructed |-> e.constructed, made |-> e.made,
                        started |-> e.started, steps |-> e.steps,
                        previous |-> c \in Keys(company_vector_stores)]
        /\ vsdisk' = SetDir(c, e.dir)
        /\ company_vector_stores' = e.cache
        /\ vector_store' = e.vs
    /\ UNCHANGED <<cacheVars, taskVars, extractVars, appVars, buildVars, last>>

\* The inputs of answer_question that make a difference: the outcome of
\* FAISS.load_local where there is an index to read and of the chain where
\* the call has its arguments and a processor, and the folder of a build
\* unless the call takes the store from the company's directory.
EntryChainInputs(q, c, initOK) ==
    IF q # "" /\ c # NoCompany /\ initOK THEN ChainOutcomes ELSE {"ok"}

EntryBuildInputs(q, c, initOK, readOK) ==
    IF q # "" /\ c # NoCompany /\ initOK
         /\ Dir(c).dir /\ LoadLocal(Dir(c), readOK) # None
    THEN {NoBuild} ELSE BuildInputs

NextEntry ==
    \/ \E q \in Questions, c \in CompanyArgs, initOK \in BOOLEAN :
          \E readOK \in ApiReadInputs(c, initOK),
             chain \in EntryChainInputs(q, c, initOK) :
            \E b \in EntryBuildInputs(q, c, initOK, readOK) :
              answer_question_entry(q, c, initOK, b.folder, b.fault, readOK, chain)
    \/ \E c \in CompanyArgs, initOK \in BOOLEAN, b \in BuildInputs :
          process_pdfs(c, initOK, b.folder, b.fault)

SpecEntry == InitEntry /\ [][NextEntry]_vars

\* The last call of an entry point lacked an argument: the company number,
\* or the question of answer_question.
InvalidCall ==
    /\ request.op \in {"answer_question", "process_pdfs"}
    /\ \/ request.company = NoCompany
       \/ request.op = "answer_question" /\ request.question = ""

\* A call that lacks an argument returns the failure (None of process_pdfs,
\* the message of answer_question) without calling PDFProcessor(), also
\* when the constructor would raise.
InvalidCallRejected ==
    InvalidCall =>
        /\ request.entry = "returned"
        /\ ~request.constructed
        /\ request.op = "answer_question" => request.value = MsgBothRequired
        /\ request.op = "process_pdfs" => request.value = FALSE

\* The step is a call that lacks an argument and leaves every directory
\* as it was.
InvalidCallKeepsDisk == InvalidCall' => vsdisk' = vsdisk

\* C17: the entry points validate their arguments before any other effect:
\* process_pdfs without a company number reports failure, answer_question
\* without a question or a company number returns the message, both
\* without constructing a processor (and so without a cache, a builder or a
\* provider) and without reading or writing the vector store directories.
C17_ValidatesFirst == []InvalidCallRejected /\ [][InvalidCallKeepsDisk]_vars

\* answer_question was called without a question for a company that has
\* PDFs to build from and no directory, while the constructor would raise:
\* it returned the message and the company still has no directory.
C17_Witness ==
    /\ request.op = "answer_question"
    /\ request.question = ""
    /\ request.company # NoCompany
    /\ ~request.initOK
    /\ request.value = MsgBothRequired
    /\ ~vsdisk[request.company].dir
    /\ \E c \in Companies : vsdisk[c].index # None

\* The last call of an entry point had its arguments and PDFProcessor()
\* returned the processor the call worked with.
ServedCall ==
    /\ request.op \in {"answer_question", "process_pdfs"}
    /\ request.made
    /\ ~InvalidCall

\* The processor of a call starts with a cache that holds no entry.
StartsEmpty ==
    request.op \in {"answer_question", "process_pdfs"} =>
        request.started = <<>>

\* No call finds the company's store in the cache: answer_question goes on
\* to the company's directory on disk.
NeverHit ==
    /\ request.op \in {"answer_question", "process_pdfs"} => ~request.steps.hit
    /\ (ServedCall /\ request.op = "answer_question") => request.steps.disk

\* The processor of a call ends with at most the store of the call's own
\* company in its cache: nothing of an earlier call is in it.
NothingCarriedOver ==
    ServedCall => Keys(company_vector_stores) \subseteq {request.company}

\* C21: process_pdfs and answer_question each construct a fresh
\* PDFProcessor with an empty cache: over any sequence of calls the cache
\* at the start of a call holds no entry, the cache lookup of
\* answer_question never succeeds, and a store that one call put in its
\* cache is not served from memory to a later call, which goes to the disk.
C21_FreshProcessorPerCall == StartsEmpty /\ NeverHit /\ NothingCarriedOver

\* answer_question was called for a company whose store the processor of
\* the call before it held in its cache: the call missed the cache, loaded
\* the index from the company's directory and answered.
C21_Witness ==
    /\ request.op = "answer_question"
    /\ request.previous
    /\ request.made
    /\ ~request.steps.hit
    /\ request.steps.load = "ok"
    /\ request.value = "answer"

\* C15: the listing of GET /companies is exactly the set of companies for
\* which an index is persisted: a company whose builds all failed, also one
\* whose build failed while persisting, is not listed.
C15_ListsPersisted ==
    request.op = "companies" =>
        request.response.body = {c \in Companies : vsdisk[c].index # None}

\* ------------------------------------------------------------------------
\* Specification SpecApp: HTTP requests handled concurrently, one task per
\* request (app.run serves each request in its own thread), each with its
\* own PDFProcessor, over the vector store directories they share.  A build
\* interleaves with the other tasks at its reads and writes of the disk.
\* ------------------------------------------------------------------------

InitApp ==
    /\ lru = <<>>
    /\ log = <<>>
    /\ InitTasks
    /\ InitProcessor
    /\ InitNoPdf

Idle == [pc |-> "idle"]

appUnchanged ==
    UNCHANGED <<cacheVars, taskVars, extractVars, request, buildVars,
                company_vector_stores, vector_store, last>>

\* POST /ask with a question and a company number, up to the cache miss of
\* the fresh processor (app.py 245-271, process_qa.py 488-426)
ask_begin(t, c) ==
    /\ handler[t].pc = "idle"
    /\ handler' = [handler EXCEPT ![t] =
                      [pc |-> "resolve", op |-> "ask", company |-> c]]
    /\ observed' = [observed EXCEPT ![t] = "nothing"]
    /\ UNCHANGED vsdisk
    /\ appUnchanged

\* answer_question lines 428-450: os.path.exists and FAISS.load_local on
\* the company's directory; without a loadable store the build starts
ask_resolve(t) ==
    LET c == handler[t].company
    IN  /\ handler[t].pc = "resolve"
        /\ observed' = [observed EXCEPT ![t] =
                           IF ~vsdisk[c].dir THEN "absent"
                           ELSE IF vsdisk[c].index = None THEN "incomplete"
                           ELSE "complete"]
        /\ handler' = [handler EXCEPT ![t].pc =
                          IF vsdisk[c].dir /\ vsdisk[c].index # None
                          THEN "chain" ELSE "build_read"]
        /\ UNCHANGED vsdisk
        /\ appUnchanged

\* answer_question lines 460-464: the QA chain, and the response
ask_chain(t) ==
    /\ handler[t].pc = "chain"
    /\ handler' = [handler EXCEPT ![t] = Idle]
    /\ UNCHANGED <<vsdisk, observed>>
    /\ appUnchanged

\* POST /process_pdfs with a company number whose folder holds PDFs, up to
\* the call of _process_company_pdfs (app.py 164-187, process_qa.py 473-110)
process_begin(t, c) ==
    /\ handler[t].pc = "idle"
    /\ handler' = [handler EXCEPT ![t] =
                      [pc |-> "build_read", op |-> "process", company |-> c]]
    /\ observed' = [observed EXCEPT ![t] = "nothing"]
    /\ UNCHANGED vsdisk
    /\ appUnchanged

\* _process_company_pdfs lines 250-312: the PDFs are read, split and
\* embedded; the build fails here, or holds the new store in memory
build_read(t, folder, embedOK) ==
    /\ handler[t].pc = "build_read"
    /\ handler' = [handler EXCEPT ![t] =
          IF NonEmpty(Concat(folder.pdfs)) = <<>> \/ ~embedOK
          THEN Idle
          ELSE [pc |-> "build_mkdir", op |-> handler[t].op,
                company |-> handler[t].company,
                store |-> [company |-> handler[t].company, docs |-> folder.docs]]]
    /\ UNCHANGED <<vsdisk, observed>>
    /\ appUnchanged

\* _process_company_pdfs lines 315-316: os.makedirs(path, exist_ok=True)
build_mkdir(t) ==
    /\ handler[t].pc = "build_mkdir"
    /\ vsdisk' = [vsdisk EXCEPT ![handler[t].company].dir = TRUE]
    /\ handler' = [handler EXCEPT ![t].pc = "build_save"]
    /\ UNCHANGED observed
    /\ appUnchanged

\* _process_company_pdfs lines 317-328: save_local writes the store into
\* the directory, or raises; then the response, or the QA chain of an ask
build_save(t, fault) ==
    LET c == handler[t].company
    IN  /\ handler[t].pc = "build_save"
        /\ vsdisk' = [vsdisk EXCEPT ![c].index =
                         IF fault = "none" THEN handler[t].store
                         ELSE IF fault = "save" THEN vsdisk[c].index
                         ELSE None]
        /\ handler' = [handler EXCEPT ![t] =
                          IF fault = "none" /\ handler[t].op = "ask"
                          THEN [pc |-> "chain", op |-> "ask", company |-> c]
                          ELSE Idle]
        /\ UNCHANGED observed
        /\ appUnchanged

\* GET /companies, app.py lines 212-233: the directories are listed as the
\* indexed companies, whatever they hold
list_companies(t) ==
    /\ handler[t].pc = "idle"
    /\ \E c \in Companies : vsdisk[c].dir
    /\ observed' = [observed EXCEPT ![t] =
                       IF \E c \in Companies : vsdisk[c].dir /\ vsdisk[c].index = None
                       THEN "incomplete" ELSE "complete"]
    /\ UNCHANGED <<vsdisk, handler>>
    /\ appUnchanged

NextApp ==
    \/ \E t \in Tasks, c \in Companies : ask_begin(t, c)
    \/ \E t \in Tasks : ask_resolve(t)
    \/ \E t \in Tasks : ask_chain(t)
    \/ \E t \in Tasks, c \in Companies : process_begin(t, c)
    \/ \E t \in Tasks, folder \in Folders, embedOK \in BOOLEAN :
          build_read(t, folder, embedOK)
    \/ \E t \in Tasks : build_mkdir(t)
    \/ \E t \in Tasks, fault \in BuildFaults \ {"embed"} : build_save(t, fault)
    \/ \E t \in Tasks : list_companies(t)

SpecApp == InitApp /\ [][NextApp]_vars

\* The tasks that are inside _process_company_pdfs for company c.
Building(c) ==
    {t \in Tasks : /\ handler[t].pc \in {"build_read", "build_mkdir", "build_save"}
                   /\ handler[t].company = c}

\* C8: publishing a company's store to disk is atomic for readers: a task
\* that checks, loads or lists the company's directory finds no directory
\* or a complete store, never a directory that exists without one.
C8_AtomicPublish == \A t \in Tasks : observed[t] # "incomplete"

\* C9: for any one company at most one build is in flight at any time.
C9_OneBuildPerCompany == \A c \in Companies : Cardinality(Building(c)) <= 1

\* A strategy fails on the PDF: it raises, or no page yields text.
StrategyFails(o) == o.raises \/ ~HasText(o.pages)

\* C10: _load_pdf_with_fallbacks never raises, whichever of the four
\* strategies throw or yield no text, and it returns the empty list when
\* all four fail.
C10_NeverRaises ==
    extracted # None =>
        /\ ~extracted.raised
        /\ (/\ StrategyFails(pdf_file.s1) /\ StrategyFails(pdf_file.s2)
            /\ StrategyFails(pdf_file.s3) /\ StrategyFails(pdf_file.s4))
              => extracted.docs = <<>>

\* The call returned the empty list on a PDF on which the first strategy
\* raises, the second finds only blank pages, a page of the third raises
\* and the OCR raises.
C10_Witness ==
    /\ extracted # None
    /\ extracted.docs = <<>>
    /\ pdf_file.s1.raises
    /\ ~pdf_file.s2.raises /\ pdf_file.s2.pages # <<>>
    /\ ~pdf_file.s3.raises /\ \E i \in DOMAIN pdf_file.s3.pages :
                                   pdf_file.s3.pages[i] = "raises"
    /\ pdf_file.s4.raises

\* The strategies of _load_pdf_with_fallbacks in their order, as they
\* behave on the PDF.
StrategyOutcome(n) ==
    IF n = 1 THEN pdf_file.s1 ELSE IF n = 2 THEN pdf_file.s2
    ELSE IF n = 3 THEN pdf_file.s3 ELSE pdf_file.s4

\* The first strategy that succeeds on the PDF (0: none does).
FirstSuccess ==
    IF \A n \in 1..4 : StrategyFails(StrategyOutcome(n)) THEN 0
    ELSE CHOOSE n \in 1..4 :
            /\ ~StrategyFails(StrategyOutcome(n))
            /\ \A m \in 1..(n - 1) : StrategyFails(StrategyOutcome(m))

\* What strategy n hands back when it succeeds: the loaders (1, 2) all the
\* pages they loaded, the page scans (3, 4) the pages that have text.
StrategyOutput(n) ==
    IF n \in {1, 2} THEN StrategyOutcome(n).pages
    ELSE SelectSeq(StrategyOutcome(n).pages, LAMBDA pg : pg = "text")

\* C11: the strategies are tried in the order 1, 2, 3, 4; a strategy that
\* raises or finds no page with text fails and the next one is tried; the
\* call returns the output of the first strategy that succeeds and runs no
\* strategy after it.
C11_FirstSuccessWins ==
    extracted # None =>
        /\ extracted.strategy = FirstSuccess
        /\ extracted.tried = (IF FirstSuccess = 0 THEN 1..4 ELSE 1..FirstSuccess)
        /\ extracted.docs = (IF FirstSuccess = 0 THEN <<>>
                             ELSE StrategyOutput(FirstSuccess))

\* The first loader raised, the second found only blank pages, the page
\* scan returned its pages with text, and the OCR, which would have found
\* text too, was not run.
C11_Witness ==
    /\ extracted # None
    /\ pdf_file.s1.raises
    /\ ~pdf_file.s2.raises /\ pdf_file.s2.pages # <<>>
    /\ extracted.strategy = 3
    /\ extracted.tried = 1..3
    /\ HasText(pdf_file.s4.pages)
    /\ extracted.docs # <<>>

\* ------------------------------------------------------------------------
\* Properties of answer_question on one PDFProcessor (SpecProcessor)
\* ------------------------------------------------------------------------

\* The last call was answer_question for a company number that is set.
Answered == last.op = "answer_question" /\ last.company # NoCompany

\* The last answer_question obtained no vector store: the company was not
\* cached, nothing was loaded from disk and no build succeeded.
NoIndexObtained ==
    /\ Answered
    /\ ~last.cached
    /\ last.steps.load # "ok"
    /\ last.build # "Built"

\* Every vector store held for a company, in the cache or on disk, was
\* built from chunks tagged with that company.
StoresTagged ==
    /\ \A i \in DOMAIN company_vector_stores :
          company_vector_stores[i].value.company = company_vector_stores[i].key
    /\ \A c \in Companies :
          vsdisk[c].index # None => vsdisk[c].index.company = c

\* C1: answer_question(q, T), after any sequence of calls for other
\* companies on the same processor, runs the retrieval only against a
\* vector store built from chunks tagged with T, and when no store for T
\* could be obtained it returns a message without querying any store.
C1_TenantIsolation ==
    /\ StoresTagged
    /\ Answered /\ last.retrieved # None
          => last.retrieved.company = last.company
    /\ NoIndexObtained => last.result = "message" /\ last.retrieved = None

\* A question for one company was answered from its own store while the
\* cache also holds the store of another company.
C1_Witness ==
    /\ Answered
    /\ last.result = "answer"
    /\ last.retrieved # None
    /\ last.retrieved.company = last.company
    /\ \E k \in Keys(company_vector_stores) : k # last.company

\* C5: answer_question obtains the store in the order cache, disk, rebuild
\* and the first that succeeds wins: on a cache hit neither the disk nor the
\* builder is touched; the builder is called only when the company is not
\* cached and its directory is absent or fails to load; a successful load
\* puts the loaded store in the cache.
C5_ResolutionOrder ==
    Answered =>
        /\ last.steps.hit = last.cached
        /\ last.steps.hit =>
              ~last.steps.disk /\ last.steps.load = "no" /\ ~last.steps.built
        /\ last.steps.load # "no" => ~last.cached /\ last.dir
        /\ last.steps.load = "ok" => ~last.steps.built
        /\ last.steps.built =>
              ~last.cached /\ (~last.dir \/ last.steps.load = "error")
        /\ last.steps.load = "ok" =>
              /\ company_vector_stores # <<>>
              /\ company_vector_stores[Len(company_vector_stores)] =
                    [key |-> last.company, value |-> vsdisk[last.company].index]
              /\ vector_store = vsdisk[last.company].index

\* A store was loaded from disk and put in the cache, which is now full.
C5_Witness ==
    /\ Answered
    /\ last.steps.load = "ok"
    /\ Len(company_vector_stores) = MAX_CACHE_SIZE
    /\ last.company \in Keys(company_vector_stores)

\* C7: when the company is not cached, nothing loads from disk and the
\* rebuild fails (also for a company with no documents), answer_question
\* returns a message saying so, without raising and without running the
\* retrieval or the language model.
C7_NoDataMessage ==
    NoIndexObtained =>
        /\ last.result = "message"
        /\ last.msg \in {MsgFailed, MsgNoPdfs}
        /\ last.retrieved = None

\* A company with no PDFs and no directory was asked about while the
\* processor's active store is the one of another company.
C7_Witness ==
    /\ NoIndexObtained
    /\ last.build = "NoPdfs"
    /\ last.msg = MsgNoPdfs
    /\ vector_store # None
    /\ vector_store.company # last.company

\* The step leaves the directory of every company it evicts from the
\* cache as it was.
EvictionKeepsDisk ==
    \A c \in Companies :
        c \in Keys(company_vector_stores) /\ c \notin Keys(company_vector_stores')
            => vsdisk'[c] = vsdisk[c]

\* A store that is cached is the one in the company's directory, as long
\* as an index can be loaded from there: what is evicted is on disk.
CachedIsPersisted ==
    \A i \in DOMAIN company_vector_stores :
        LET e == company_vector_stores[i]
        IN  vsdisk[e.key].dir
            /\ (vsdisk[e.key].index # None => vsdisk[e.key].index = e.value)

\* answer_question for a company that is on disk and not (any more) in the
\* cache loaded the store from the directory without building, retrieved
\* from it, and put it in the cache as the most recently used entry.
ReloadsFromDisk ==
    Answered /\ ~last.cached /\ last.steps.load = "ok" =>
        /\ ~last.steps.built
        /\ last.retrieved = vsdisk[last.company].index
        /\ vector_store = vsdisk[last.company].index
        /\ company_vector_stores[Len(company_vector_stores)] =
              [key |-> last.company, value |-> vsdisk[last.company].index]

\* C16: eviction removes only the entry in memory: the directory of an
\* evicted company is unchanged, and a later answer_question for it loads
\* from disk, without building, the store that was cached before, and puts
\* it in the cache again.
C16_EvictionKeepsDisk ==
    /\ [](CachedIsPersisted /\ ReloadsFromDisk)
    /\ [][EvictionKeepsDisk]_vars

\* Every company in the cache has a directory on disk.
CachedHasDirectory ==
    \A k \in Keys(company_vector_stores) : vsdisk[k].dir

\* A store enters the cache, as a new entry or in place of the company's
\* entry, only in a step that leaves the same store as the index of the
\* company's directory: it was saved there or loaded from there.
EntersAfterSaveOrLoad ==
    \A i \in DOMAIN company_vector_stores' :
        LET e == company_vector_stores'[i]
        IN  (\A j \in DOMAIN company_vector_stores : company_vector_stores[j] # e)
                => vsdisk'[e.key] = [dir |-> TRUE, index |-> e.value]

\* No step removes a directory.
NeverDeletes ==
    \A k \in Companies : vsdisk[k].dir => vsdisk'[k].dir

\* C22: in every state of a PDFProcessor every company in the cache has
\* its directory on disk: a store enters the cache only after it was saved
\* to the directory or loaded from it, and no operation removes a
\* directory.  (The index in the directory is the cached store, unless a
\* later build of the company failed while writing it.)
C22_CachedHasDirectory ==
    /\ []CachedHasDirectory
    /\ [][EntersAfterSaveOrLoad /\ NeverDeletes]_vars

\* The cache is full; one of its companies has the cached store as the
\* index of its directory, another has a directory that a later, failed
\* build left without a readable index.
C22_Witness ==
    /\ Len(company_vector_stores) = MAX_CACHE_SIZE
    /\ \E k \in Keys(company_vector_stores) :
          vsdisk[k].dir /\ vsdisk[k].index = LRUGetValue(company_vector_stores, k)
    /\ \E k \in Keys(company_vector_stores) :
          vsdisk[k].dir /\ vsdisk[k].index = None

\* A question for a company that had been built and then evicted was
\* answered from the store loaded from its directory, which is cached again
\* in a full cache.
C16_Witness ==
    /\ Answered
    /\ ~last.cached
    /\ last.steps.load = "ok"
    /\ last.result = "answer"
    /\ last.retrieved = vsdisk[last.company].index
    /\ Len(company_vector_stores) = MAX_CACHE_SIZE
    /\ company_vector_stores[MAX_CACHE_SIZE].key = last.company

\* C20: after a call on the processor for a company, the active
\* vector_store is unset or the store of that company: a call for one
\* company that fails does not leave the store of another company active.
C20_ActiveStoreOfLastCompany ==
    Answered => vector_store = None \/ vector_store.company = last.company

\* ------------------------------------------------------------------------
\* Properties of the stand-alone LRUCache (SpecCache)
\* ------------------------------------------------------------------------

Max(S) == CHOOSE x \in S : \A y \in S : y <= x

Min2(a, b) == IF a < b THEN a ELSE b

\* The calls of the history that touch key k: a put, or a get that hit.
Uses(l, k) == {i \in DOMAIN l : l[i].key = k /\ (l[i].op = "put" \/ l[i].hit)}

\* Position in the history of the last get-hit or put of k (0: never).
LastUse(l, k) == IF Uses(l, k) = {} THEN 0 ELSE Max(Uses(l, k))

PutIndexes(l) == {i \in DOMAIN l : l[i].op = "put"}

\* C2: after any sequence of completed get and put calls on a cache of
\* capacity K, the cache holds at most K entries.
C2_CapacityBound == Len(lru) <= MAX_CACHE_SIZE

\* A put on a full cache of a key that was not in it has completed.
C2_Witness ==
    /\ log # <<>>
    /\ log[Len(log)].op = "put"
    /\ ~log[Len(log)].hit
    /\ Cardinality({k \in Companies : LastUse(log, k) > 0}) > MAX_CACHE_SIZE
    /\ Len(lru) = MAX_CACHE_SIZE

\* A get hit and a put each leave their key as the last (most recently
\* used) entry, and a put leaves its value under the key.
MostRecentlyUsed ==
    log # <<>> /\ (log[Len(log)].op = "put" \/ log[Len(log)].hit)
        => /\ lru # <<>>
           /\ lru[Len(lru)].key = log[Len(log)].key
           /\ lru[Len(lru)].value = log[Len(log)].value

\* The entries are held in the order of their last get-hit or put, and
\* they are the (at most K) keys whose last get-hit or put is the latest:
\* every key a put evicted was the one used the longest ago.
EvictsOldest ==
    LET lu == [k \in Companies |-> LastUse(log, k)]
    IN  /\ \A i \in DOMAIN lru :
              /\ lu[lru[i].key] > 0
              /\ i > 1 => lu[lru[i - 1].key] < lu[lru[i].key]
        /\ \A j \in Companies \ Keys(lru) :
              lru # <<>> => lu[j] < lu[lru[1].key]
        /\ Len(lru) = Min2(MAX_CACHE_SIZE,
                           Cardinality({k \in Companies : lu[k] > 0}))

\* The history is K+1 puts of distinct keys on the empty cache, the last
\* call being the last of these puts, with any gets in between.
KPlusOnePuts ==
    /\ Cardinality(PutIndexes(log)) = MAX_CACHE_SIZE + 1
    /\ \A i, j \in PutIndexes(log) : i # j => log[i].key # log[j].key
    /\ log[Len(log)].op = "put"

NthPutKey(n) ==
    log[CHOOSE i \in PutIndexes(log) :
            Cardinality({j \in PutIndexes(log) : j <= i}) = n].key

\* The first key put was the subject of a get hit before the last put.
FirstReaccessed ==
    \E i \in DOMAIN log :
        log[i].op = "get" /\ log[i].hit /\ log[i].key = NthPutKey(1)

\* The particular case as stated: the first key is absent unless it was
\* accessed again in between, and then the second key is the one evicted.
ParticularAsStated ==
    KPlusOnePuts =>
        IF FirstReaccessed
        THEN NthPutKey(2) \notin Keys(lru) /\ NthPutKey(1) \in Keys(lru)
        ELSE NthPutKey(1) \notin Keys(lru)

\* The particular case as the code has it: the key evicted is the one of the
\* K+1 whose last get-hit or put is the oldest; that is the first key when
\* it was not accessed again, and the second key when the first key's last
\* access came after the put of the second and the second was not accessed
\* again.
ParticularAmended ==
    KPlusOnePuts =>
        LET lu == [k \in Companies |-> LastUse(log, k)]
            first == NthPutKey(1)
            second == NthPutKey(2)
        IN  /\ \A k \in Companies :
                  lu[k] > 0 =>
                    (k \notin Keys(lru) <=>
                        \A j \in Companies : lu[j] > 0 => lu[k] <= lu[j])
            /\ ~FirstReaccessed => first \notin Keys(lru)
            /\ (lu[first] > lu[second] /\ log[lu[second]].op = "put")
                  => second \notin Keys(lru) /\ first \in Keys(lru)

\* C3 as stated: recency law of the cache, with the particular case in
\* which a re-access of the first of K+1 keys always makes the second key
\* the one evicted.
C3_AsStated == MostRecentlyUsed /\ EvictsOldest /\ ParticularAsStated

\* C3: a get hit and a put each make their key the most recently used
\* entry; a put that overflows evicts the single entry whose last get-hit
\* or put is the oldest; after K+1 puts of distinct keys the first is absent
\* unless it was accessed again, and the second is the one evicted when the
\* first key's last access follows the put of the second and the second was
\* not accessed again.
C3_RecencyLaw == MostRecentlyUsed /\ EvictsOldest /\ ParticularAmended

\* K+1 distinct keys were put, the first was hit by a get after the second
\* was put, and the put of the last one evicted the second.
C3_Witness ==
    /\ KPlusOnePuts
    /\ FirstReaccessed
    /\ LastUse(log, NthPutKey(1)) > LastUse(log, NthPutKey(2))
    /\ NthPutKey(1) \in Keys(lru)
    /\ NthPutKey(2) \notin Keys(lru)

====
